---------------------------- MODULE Spec2Model ----------------------------
(***************************************************************************)
(* A model of the deck generator: the JSON repair of the generator's raw   *)
(* text (content_generator.safe_json_parse), the polish pass and its       *)
(* sources backfill (content_generator._polish_content), the assembly      *)
(* (content_generator.generate_content), the slide mapping                 *)
(* (presentation_engine.create_presentation) and the CLI (main.main).      *)
(*                                                                         *)
(* Text is modelled character by character: a Python str is a sequence of  *)
(* one-character strings.  A Python value (what json.loads returns) is a   *)
(* pair <<kind, content>>: the Python type and what the value holds:       *)
(*   None  <<"null", <<>>>>                                                *)
(*   bool  <<"bool", the literal's characters>>                            *)
(*   int/float <<"num", the number's characters>>                          *)
(*   str   <<"str", its characters>>                                       *)
(*   list  <<"list", the sequence of its items>>                           *)
(*   dict  <<"dict", the sequence of its <<key, value>> pairs in insertion *)
(*          order, a key being a sequence of characters>>                  *)
(***************************************************************************)
EXTENDS Integers, Sequences, FiniteSets, TLC

VARIABLES
    \* safe_json_parse(raw): its argument, its position and what it returned
    raw, parse_pc, parsed,
    \* _render_chart(slide, chart_spec): its argument, position and the
    \* chart shapes added to the slide
    chart_spec, chart_pc, chart_shapes,
    \* the normalisation block of _polish_content applied to a document
    norm_doc, norm_facts, norm_pc, norm_once, norm_twice,
    \* main(): its position, arguments, whether GROQ_API_KEY is set, its
    \* locals, the external calls issued so far, the exception its except
    \* clause caught, whether an error line was printed, and the exit code
    pc, topic, no_web, api_key, web_facts, draft, content, calls, exc,
    error_printed, exit_code,
    \* create_presentation(): the slides added to prs so far, the index of
    \* the next entry of content["slides"], and whether prs.save ran
    deck, slide_idx, saved

parseVars == <<raw, parse_pc, parsed>>
chartVars == <<chart_spec, chart_pc, chart_shapes>>
normVars == <<norm_doc, norm_facts, norm_pc, norm_once, norm_twice>>
mainVars == <<pc, topic, no_web, api_key, web_facts, draft, content, calls, exc,
              error_printed, exit_code, deck, slide_idx, saved>>
vars == <<parseVars, chartVars, normVars, mainVars>>

----------------------------------------------------------------------------
(* Python values *)

JNull == <<"null", <<>>>>
JTrue == <<"bool", <<"t", "r", "u", "e">>>>
JFalse == <<"bool", <<"f", "a", "l", "s", "e">>>>
Num(chars) == <<"num", chars>>
Str(chars) == <<"str", chars>>
List(items) == <<"list", items>>
Dict(pairs) == <<"dict", pairs>>

IsStr(x) == x[1] = "str"
IsList(x) == x[1] = "list"
IsDict(x) == x[1] = "dict"

\* Python truthiness: None, False, 0, "", [] and {} are falsy.
Truthy(x) ==
    CASE x[1] = "null" -> FALSE
      [] x[1] = "bool" -> x = JTrue
      [] x[1] = "num" ->
            \* nonzero iff the mantissa (what precedes e or E) has a nonzero digit
            \E i \in 1..Len(x[2]) :
                /\ x[2][i] \in {"1", "2", "3", "4", "5", "6", "7", "8", "9"}
                /\ \A m \in 1..i : x[2][m] \notin {"e", "E"}
      [] OTHER -> Len(x[2]) > 0

\* key in d, d[key], d.get(key, default) and d[key] = value for a dict d
HasKey(d, key) == \E i \in 1..Len(d[2]) : d[2][i][1] = key
KeyIndex(d, key) == CHOOSE i \in 1..Len(d[2]) : d[2][i][1] = key
GetItem(d, key) == d[2][KeyIndex(d, key)][2]
Get(d, key, default) == IF HasKey(d, key) THEN GetItem(d, key) ELSE default
SetItem(d, key, value) ==
    IF HasKey(d, key)
    THEN Dict([d[2] EXCEPT ![KeyIndex(d, key)] = <<key, value>>])
    ELSE Dict(Append(d[2], <<key, value>>))

K_title == <<"t", "i", "t", "l", "e">>
K_overview == <<"o", "v", "e", "r", "v", "i", "e", "w">>
K_slides == <<"s", "l", "i", "d", "e", "s">>
K_conclusion == <<"c", "o", "n", "c", "l", "u", "s", "i", "o", "n">>
K_topics == <<"t", "o", "p", "i", "c", "s">>
K_sources == <<"s", "o", "u", "r", "c", "e", "s">>
K_subtitle == <<"s", "u", "b", "t", "i", "t", "l", "e">>
K_bullets == <<"b", "u", "l", "l", "e", "t", "s">>
K_chart == <<"c", "h", "a", "r", "t">>
K_table == <<"t", "a", "b", "l", "e">>
K_categories == <<"c", "a", "t", "e", "g", "o", "r", "i", "e", "s">>
K_values == <<"v", "a", "l", "u", "e", "s">>
K_type == <<"t", "y", "p", "e">>
ParsingFailed == <<"P", "a", "r", "s", "i", "n", "g", " ", "F", "a", "i", "l", "e", "d">>
GeneralIndustryReports == <<"G", "e", "n", "e", "r", "a", "l", " ", "i", "n", "d", "u", "s", "t", "r", "y", " ", "r", "e", "p", "o", "r", "t", "s">>
SourcesPrefix == <<"S", "o", "u", "r", "c", "e", "s", ":", " ">>
SourcesSep == <<";", " ">>
ItemPrefix == <<"I", "t", "e", "m", " ">>
OverviewTitle == <<"O", "v", "e", "r", "v", "i", "e", "w">>
ConclusionTitle == <<"C", "o", "n", "c", "l", "u", "s", "i", "o", "n">>
UntitledPresentation == <<"U", "n", "t", "i", "t", "l", "e", "d", " ", "P", "r", "e", "s", "e", "n", "t", "a", "t", "i", "o", "n">>
DefaultSlideTitle == <<"S", "l", "i", "d", "e">>
DefaultSeries == <<"S", "e", "r", "i", "e", "s">>
BadLLMResponse == <<"B", "a", "d", " ", "L", "L", "M", " ", "r", "e", "s", "p", "o", "n", "s", "e", ":", " ">>
BarType == <<"b", "a", "r">>

----------------------------------------------------------------------------
(* Text helpers *)

Min(a, b) == IF a < b THEN a ELSE b

\* s[:n]
Take(s, n) == SubSeq(s, 1, Min(Len(s), n))

\* what str.strip() and the regex class \s remove, and what json skips
Whitespace == {" ", "\n", "\t", "\r"}
Digits == {"0", "1", "2", "3", "4", "5", "6", "7", "8", "9"}
HexDigits == Digits \cup {"a", "b", "c", "d", "e", "f", "A", "B", "C", "D", "E", "F"}

\* the first index >= i of s that is not in chars (Len(s) + 1 if none)
SkipWhile(s, i, chars) ==
    CHOOSE j \in i..(Len(s) + 1) :
        /\ (j = Len(s) + 1 \/ s[j] \notin chars)
        /\ \A m \in i..(j - 1) : s[m] \in chars

SkipWs(s, i) == SkipWhile(s, i, Whitespace)

\* s.strip()
Strip(s) ==
    LET first == SkipWs(s, 1)
        \* the number of whitespace characters that end s
        tail == CHOOSE r \in 0..Len(s) :
                    /\ \A q \in 0..(r - 1) : s[Len(s) - q] \in Whitespace
                    /\ (r = Len(s) \/ s[Len(s) - r] \notin Whitespace)
    IN IF first > Len(s) THEN <<>> ELSE SubSeq(s, first, Len(s) - tail)

\* s.startswith(p)
StartsWith(s, p) == Len(s) >= Len(p) /\ SubSeq(s, 1, Len(p)) = p

\* s[i:].startswith(p), i counted from 1
HasAt(s, i, p) == i + Len(p) - 1 <= Len(s) /\ SubSeq(s, i, i + Len(p) - 1) = p

Max(a, b) == IF a > b THEN a ELSE b

\* the members of a finite set of integers in increasing order
Sorted(S) ==
    [n \in 1..Cardinality(S) |-> CHOOSE i \in S : Cardinality({m \in S : m <= i}) = n]

\* the indices of lo..hi that are not in dropped, in order: n |-> the n-th
KeptIndex(lo, hi, dropped) ==
    LET drop == dropped \cap (lo..hi)
        rank == [j \in lo..hi |-> j - lo + 1 - Cardinality({d \in drop : d < j})]
    IN [n \in 1..((hi - lo + 1) - Cardinality(drop)) |->
          CHOOSE j \in (lo + n - 1)..hi : j \notin drop /\ rank[j] = n]

\* the characters of s except those at the indices in dropped
Keep(s, dropped) ==
    LET index == KeptIndex(1, Len(s), dropped)
    IN [n \in DOMAIN index |-> s[index[n]]]

----------------------------------------------------------------------------
(* json.loads: the decoder of the standard library, as safe_json_parse     *)
(* uses it.  A decoding step returns [ok, val, pos]: whether it succeeded, *)
(* the value and the index after it; ok = FALSE is json.JSONDecodeError.   *)

Fail == [ok |-> FALSE, val |-> JNull, pos |-> 0]
Ok(val, pos) == [ok |-> TRUE, val |-> val, pos |-> pos]

\* The characters after a backslash that a JSON string may hold, and what
\* they decode to ("<bs>" stands for the backspace character and "<u>" for
\* the character of a \uXXXX escape, whatever its code point).
Unescape(c) ==
    CASE c = "\"" -> "\""
      [] c = "\\" -> "\\"
      [] c = "/" -> "/"
      [] c = "n" -> "\n"
      [] c = "t" -> "\t"
      [] c = "r" -> "\r"
      [] c = "f" -> "\f"
      [] c = "b" -> "<bs>"

\* py_scanstring(s, end, strict=True): s[i] is the character after the
\* opening quote.  A character is escaped when an odd number of backslashes
\* runs up to it; the string ends at the first quote that is not escaped.
ScanString(s, i) ==
    LET BackslashRun(m) ==
            CHOOSE r \in 0..(m - i) :
                /\ \A q \in 1..r : s[m - q] = "\\"
                /\ (m - r = i \/ s[m - r - 1] # "\\")
        Escaped(m) == BackslashRun(m) % 2 = 1
        Closes(j) == s[j] = "\"" /\ ~Escaped(j)
        close == CHOOSE j \in i..Len(s) : Closes(j) /\ \A m \in i..(j - 1) : ~Closes(m)
        escapes == {m \in i..(close - 1) : s[m] = "\\" /\ ~Escaped(m)}
        unicode == {m \in escapes : s[m + 1] = "u"}
        hex == UNION {(m + 2)..(m + 5) : m \in unicode}
        index == KeptIndex(i, close - 1, escapes \cup hex)
        Decoded(n) == IF (n - 1) \notin escapes THEN s[n]
                      ELSE IF s[n] = "u" THEN "<u>" ELSE Unescape(s[n])
    IN IF ~\E j \in i..Len(s) : Closes(j) THEN Fail          \* unterminated
       ELSE IF \E m \in i..(close - 1) : s[m] \in {"\n", "\t", "\r"}
            THEN Fail                                          \* control character
       ELSE IF \E m \in escapes :
                 s[m + 1] \notin {"\"", "\\", "/", "n", "t", "r", "f", "b", "u"}
            THEN Fail                                          \* invalid escape
       ELSE IF \E m \in unicode :
                 m + 5 >= close \/ \E n \in (m + 2)..(m + 5) : s[n] \notin HexDigits
            THEN Fail                                          \* invalid \uXXXX
       ELSE IF escapes = {} THEN Ok(Str(SubSeq(s, i, close - 1)), close + 1)
       ELSE Ok(Str([n \in DOMAIN index |-> Decoded(index[n])]), close + 1)

\* NUMBER_RE: (-?(?:0|[1-9]\d*))(\.\d+)?([eE][-+]?\d+)? matched at s[i]
ScanNumber(s, i) ==
    LET IsDigitAt(j) == j <= Len(s) /\ s[j] \in Digits
        j0 == IF s[i] = "-" THEN i + 1 ELSE i
        intEnd == IF s[j0] = "0" THEN j0 + 1 ELSE SkipWhile(s, j0, Digits)
        fracEnd == IF HasAt(s, intEnd, <<".">>) /\ IsDigitAt(intEnd + 1)
                   THEN SkipWhile(s, intEnd + 1, Digits) ELSE intEnd
        expAt == IF fracEnd + 1 <= Len(s) /\ s[fracEnd + 1] \in {"-", "+"}
                 THEN fracEnd + 2 ELSE fracEnd + 1
        expEnd == IF fracEnd <= Len(s) /\ s[fracEnd] \in {"e", "E"} /\ IsDigitAt(expAt)
                  THEN SkipWhile(s, expAt, Digits) ELSE fracEnd
    IN IF IsDigitAt(j0) THEN Ok(Num(SubSeq(s, i, expEnd - 1)), expEnd) ELSE Fail

RECURSIVE ScanOnce(_, _), ScanArray(_, _, _), ScanObject(_, _, _)

\* scanner.py_make_scanner._scan_once: the value that starts at s[i]
ScanOnce(s, i) ==
    IF i > Len(s) THEN Fail
    ELSE IF s[i] = "\"" THEN ScanString(s, i + 1)
    ELSE IF s[i] = "{" THEN
        LET j == SkipWs(s, i + 1)
        IN IF HasAt(s, j, <<"}">>) THEN Ok(Dict(<<>>), j + 1)
           ELSE ScanObject(s, j, Dict(<<>>))
    ELSE IF s[i] = "[" THEN
        LET j == SkipWs(s, i + 1)
        IN IF HasAt(s, j, <<"]">>) THEN Ok(List(<<>>), j + 1)
           ELSE ScanArray(s, j, <<>>)
    ELSE IF HasAt(s, i, <<"n", "u", "l", "l">>) THEN Ok(JNull, i + 4)
    ELSE IF HasAt(s, i, JTrue[2]) THEN Ok(JTrue, i + 4)
    ELSE IF HasAt(s, i, JFalse[2]) THEN Ok(JFalse, i + 5)
    ELSE IF s[i] \in Digits \cup {"-"} THEN ScanNumber(s, i)
    ELSE Fail

\* decoder.JSONArray: s[i] starts the next item, acc holds the items so far
ScanArray(s, i, acc) ==
    LET After(item) ==
            LET j == SkipWs(s, item.pos)
            IN IF ~item.ok THEN Fail
               ELSE IF HasAt(s, j, <<"]">>) THEN Ok(List(Append(acc, item.val)), j + 1)
               ELSE IF HasAt(s, j, <<",">>)
                    THEN ScanArray(s, SkipWs(s, j + 1), Append(acc, item.val))
               ELSE Fail
    IN After(ScanOnce(s, i))

\* decoder.JSONObject: s[i] must open the next key, acc is the dict so far
\* (a repeated key keeps its first place and takes the last value)
ScanObject(s, i, acc) ==
    LET AfterValue(key, value) ==
            LET j == SkipWs(s, value.pos)
            IN IF ~value.ok THEN Fail
               ELSE IF HasAt(s, j, <<"}">>)
                    THEN Ok(SetItem(acc, key.val[2], value.val), j + 1)
               ELSE IF HasAt(s, j, <<",">>)
                    THEN ScanObject(s, SkipWs(s, j + 1), SetItem(acc, key.val[2], value.val))
               ELSE Fail
        AfterKey(key) ==
            LET colon == SkipWs(s, key.pos)
            IN IF key.ok /\ HasAt(s, colon, <<":">>)
               THEN AfterValue(key, ScanOnce(s, SkipWs(s, colon + 1)))
               ELSE Fail
    IN IF HasAt(s, i, <<"\"">>) THEN AfterKey(ScanString(s, i + 1)) ELSE Fail

\* json.loads(s): one value, whitespace allowed around it, nothing after;
\* ok = FALSE is the exception it raises
Loads(s) ==
    LET End(r) == IF r.ok /\ SkipWs(s, r.pos) = Len(s) + 1 THEN r ELSE Fail
    IN End(ScanOnce(s, SkipWs(s, 1)))

----------------------------------------------------------------------------
(* content_generator.safe_json_parse *)

OverviewLimit == 500

\* the document safe_json_parse returns when it gives up
FallbackDocument(overview) ==
    Dict(<< <<K_title, Str(ParsingFailed)>>,
            <<K_overview, Str(overview)>>,
            <<K_slides, List(<<>>)>>,
            <<K_conclusion, Str(<<>>)>> >>)

\* re.search(r"\{.*\}", s, re.S): from the first "{" to the last "}" after
\* it; ok = FALSE when there is no match
BraceSpan(s) ==
    LET opens == {i \in 1..Len(s) : s[i] = "{"}
        first == CHOOSE i \in opens : \A m \in opens : i <= m
        closes == {j \in 1..Len(s) : s[j] = "}" /\ j > first}
        last == CHOOSE j \in closes : \A m \in closes : m <= j
    IN IF opens = {} \/ closes = {} THEN [ok |-> FALSE, span |-> <<>>]
       ELSE [ok |-> TRUE, span |-> SubSeq(s, first, last)]

\* re.sub(r",(\s*[}\]])", r"\1", s): every comma that only whitespace
\* separates from a closing "}" or "]" is removed
StripTrailingCommas(s) ==
    LET next(i) == SkipWs(s, i + 1)
        dropped == {i \in 1..Len(s) :
                      s[i] = "," /\ next(i) <= Len(s) /\ s[next(i)] \in {"}", "]"}}
    IN IF dropped = {} THEN s ELSE Keep(s, dropped)

\* the try block: json.loads(raw), and json.loads again of a decoded str
\* that starts with "{"; ok = FALSE when either raises
DirectParse(s) ==
    LET Again(first) ==
            IF first.ok /\ IsStr(first.val) /\ StartsWith(Strip(first.val[2]), <<"{">>)
            THEN Loads(first.val[2])
            ELSE first
    IN Again(Loads(s))

\* the except block's json.loads(candidate); ok = FALSE when there is no
\* brace span or the cleaned span does not parse
SpanParse(s) ==
    LET Candidate(match) ==
            IF match.ok THEN Loads(StripTrailingCommas(match.span)) ELSE Fail
    IN Candidate(BraceSpan(s))

\* safe_json_parse with line 50 keeping the whole text (no [:500])
safe_json_parse_whole_text(r) ==
    LET ExceptBlock(span) ==
            IF span.ok THEN span.val ELSE FallbackDocument(r[2])
        TryBlock(direct) ==
            IF direct.ok THEN direct.val ELSE ExceptBlock(SpanParse(r[2]))
    IN IF ~Truthy(r) \/ ~IsStr(r) THEN FallbackDocument(<<>>)
       ELSE TryBlock(DirectParse(r[2]))

\* safe_json_parse(raw), raw being any Python value
safe_json_parse(r) ==
    LET ExceptBlock(span) ==
            IF span.ok THEN span.val ELSE FallbackDocument(Take(r[2], OverviewLimit))
        TryBlock(direct) ==
            IF direct.ok THEN direct.val ELSE ExceptBlock(SpanParse(r[2]))
    IN IF ~Truthy(r) \/ ~IsStr(r) THEN FallbackDocument(<<>>)
       ELSE TryBlock(DirectParse(r[2]))

----------------------------------------------------------------------------
(* json.dumps, used to write down the raw texts a generator may answer *)

\* the characters of s with a backslash put before each quote and backslash
\* and the control characters written as their escapes
EscapeChars(s) ==
    LET special == {i \in 1..Len(s) : s[i] \in {"\"", "\\", "\n", "\t", "\r"}}
        start == [i \in 1..Len(s) |-> i + Cardinality({m \in special : m < i})]
        Code(c) == CASE c = "\n" -> "n" [] c = "\t" -> "t" [] c = "\r" -> "r" [] OTHER -> c
    IN [n \in 1..(Len(s) + Cardinality(special)) |->
          LET i == CHOOSE j \in Max(1, n - Cardinality(special))..Min(n, Len(s)) :
                      start[j] = n \/ (j \in special /\ start[j] + 1 = n)
          IN IF i \notin special THEN s[i]
             ELSE IF start[i] = n THEN "\\" ELSE Code(s[i])]

Quote(s) == <<"\"">> \o EscapeChars(s) \o <<"\"">>

RECURSIVE Dumps(_), DumpItems(_, _), DumpPairs(_, _)
Dumps(x) ==
    CASE x[1] = "null" -> <<"n", "u", "l", "l">>
      [] x[1] \in {"bool", "num"} -> x[2]
      [] x[1] = "str" -> Quote(x[2])
      [] x[1] = "list" -> <<"[">> \o DumpItems(x[2], 1) \o <<"]">>
      [] x[1] = "dict" -> <<"{">> \o DumpPairs(x[2], 1) \o <<"}">>
DumpItems(items, i) ==
    IF i > Len(items) THEN <<>>
    ELSE Dumps(items[i]) \o (IF i < Len(items) THEN <<",", " ">> ELSE <<>>)
         \o DumpItems(items, i + 1)
DumpPairs(pairs, i) ==
    IF i > Len(pairs) THEN <<>>
    ELSE Quote(pairs[i][1]) \o <<":", " ">> \o Dumps(pairs[i][2])
         \o (IF i < Len(pairs) THEN <<",", " ">> ELSE <<>>)
         \o DumpPairs(pairs, i + 1)

\* the text with a comma put before its last character: the trailing comma
\* generators leave before a closing bracket
WithTrailingComma(s) == SubSeq(s, 1, Len(s) - 1) \o <<",">> \o <<s[Len(s)]>>

\* n characters of prose
Pad(n) == [i \in 1..n |-> "x"]

----------------------------------------------------------------------------
(* Specification SpecParse: safe_json_parse applied to raw texts *)

PadLen == 501

T_ == <<"T">>
O_ == <<"O", "n", "e", ".", " ", "T", "w", "o", "?">>
C_ == <<"C">>

Topic(subtitle, extra) ==
    Dict(<< <<K_subtitle, Str(subtitle)>>,
            <<K_bullets, List(<<Str(<<"b", "1">>), Str(<<"b", "2">>)>>)>> >> \o extra)

Slide(title, topics) ==
    Dict(<< <<K_type, Str(<<"M">>)>>, <<K_title, Str(title)>>, <<K_topics, topics>> >>)

Document(title, overview, slides, conclusion) ==
    Dict(<< <<K_title, Str(title)>>, <<K_overview, Str(overview)>>,
            <<K_slides, List(slides)>>, <<K_conclusion, Str(conclusion)>> >>)

\* values a generator's text may encode: documents, and JSON that is none
ParseValues ==
    { Document(T_, O_, <<>>, C_),
      Document(T_, <<>>, <<Slide(<<"S">>, List(<<Topic(<<"X">>, <<>>)>>))>>, <<>>),
      Dict(<< <<K_title, Str(T_)>> >>),
      Dict(<< <<K_title, Str(T_)>>, <<K_slides, Str(<<"n", "o">>)>> >>),
      Dict(<<>>),
      List(<<>>),
      List(<<Num(<<"1">>), Num(<<"2">>)>>),
      Num(<<"4", "2">>),
      Num(<<"-", "1", ".", "5", "e", "3">>),
      Str(<<"h", "i">>),
      Str(<<"{", "b", "a", "d">>),
      JNull,
      JTrue }

\* the ways a generator writes a value down: as JSON, JSON encoded twice,
\* with a trailing comma, cut short
Writings(x) ==
    { Dumps(x), Dumps(Str(Dumps(x))), WithTrailingComma(Dumps(x)),
      Dumps(Str(WithTrailingComma(Dumps(x)))),
      SubSeq(Dumps(x), 1, Len(Dumps(x)) - 1) }

Prefixes == { <<>>, <<" ", "\n">>, <<"H", "e", "r", "e", ":", " ">>, <<"{", " ">> }
Suffixes == { <<>>, <<"\n">>, <<" ", "o", "k">>, <<" ", "}">> }

\* the arguments of safe_json_parse: None, a number, the empty text, prose
\* shorter and longer than the overview limit, and written values in prose
ParseInputs ==
    { JNull, Num(<<"7">>), Str(<<>>), Str(<<" ">>), Str(Pad(3)),
      Str(Pad(PadLen)), Str(<<"{">> \o Pad(PadLen)),
      Str(Pad(PadLen) \o <<"{", "}">>), Str(<<"{">> \o Pad(PadLen) \o <<"}">>) }
    \cup { Str(p \o w \o s) : p \in Prefixes, w \in UNION {Writings(x) : x \in ParseValues},
                              s \in Suffixes }

ParseInit ==
    /\ raw \in ParseInputs
    /\ parse_pc = "call"
    /\ parsed = JNull

\* one call of safe_json_parse(raw)
SafeJsonParse ==
    /\ parse_pc = "call"
    /\ parsed' = safe_json_parse(raw)
    /\ parse_pc' = "returned"
    /\ UNCHANGED raw

----------------------------------------------------------------------------
(* Python built-ins the code applies to decoded values *)

\* what an operation returns when it raises instead: v names the exception
Raised(exception) == <<"raise", exception>>
IsRaised(x) == x[1] = "raise"

\* len(x): defined for str, list and dict; TypeError otherwise
HasLen(x) == x[1] \in {"str", "list", "dict"}
PyLen(x) == Len(x[2])

\* for item in x: the items of a list, the keys of a dict, the characters
\* of a str; TypeError otherwise
Iterable(x) == x[1] \in {"str", "list", "dict"}
Items(x) ==
    CASE x[1] = "list" -> x[2]
      [] x[1] = "dict" -> [i \in 1..Len(x[2]) |-> Str(x[2][i][1])]
      [] x[1] = "str" -> [i \in 1..Len(x[2]) |-> Str(<<x[2][i]>>)]

DigitChars == <<"0", "1", "2", "3", "4", "5", "6", "7", "8", "9">>
RECURSIVE Decimal(_)
\* str(n) for a natural number n
Decimal(n) ==
    IF n < 10 THEN <<DigitChars[n + 1]>>
    ELSE Decimal(n \div 10) \o <<DigitChars[(n % 10) + 1]>>

\* str(x) for the values the renderer writes as a bullet: the text of a
\* str, the literal of an integer, None, True and False
PyStr(x) ==
    CASE x[1] \in {"str", "num"} -> x[2]
      [] x[1] = "null" -> <<"N", "o", "n", "e">>
      [] x = JTrue -> <<"T", "r", "u", "e">>
      [] x = JFalse -> <<"F", "a", "l", "s", "e">>

RECURSIVE Join(_, _, _)
\* sep.join(items[i:]) for a sequence of str values
Join(items, sep, i) ==
    IF i > Len(items) THEN <<>>
    ELSE items[i][2] \o (IF i < Len(items) THEN sep ELSE <<>>) \o Join(items, sep, i + 1)

----------------------------------------------------------------------------
(* presentation_engine._render_chart *)

\* [f"Item {i+1}" for i in range(len(values))]
ItemCategories(n) == List([i \in 1..n |-> Str(ItemPrefix \o Decimal(i))])

\* The chart shapes _render_chart adds to the slide: none when the spec is
\* skipped or anything in the try block raises, else one chart carrying the
\* type, the series title, the categories and the values.
render_chart(spec) ==
    IF ~IsDict(spec) THEN <<>>                    \* .get raises, caught
    ELSE
    LET given == Get(spec, K_categories, List(<<>>))
        values == Get(spec, K_values, List(<<>>))
        synthesize == Truthy(values) /\ ~Truthy(given)
        categories == IF synthesize THEN ItemCategories(PyLen(values)) ELSE given
    IN IF synthesize /\ ~HasLen(values) THEN <<>> \* len raises, caught
       ELSE IF ~Truthy(categories) \/ ~Truthy(values) THEN <<>>
       ELSE IF ~HasLen(categories) \/ ~HasLen(values) THEN <<>>
       ELSE IF PyLen(categories) # PyLen(values) THEN <<>>
       ELSE << [type |-> IF Get(spec, K_type, JNull) = Str(BarType)
                         THEN "bar" ELSE "line",
                title |-> Get(spec, K_title, Str(DefaultSeries)),
                categories |-> categories,
                values |-> values] >>

----------------------------------------------------------------------------
(* Specification SpecChart: _render_chart applied to chart specs *)

MaxPoints == 4

Labels(n) == List([i \in 1..n |-> Str(<<"c">> \o Decimal(i))])
Numbers(n) == List([i \in 1..n |-> Num(Decimal(i))])

\* a chart spec with the given optional fields: each of cats, vals, type
\* and title is a sequence of zero or one <<key, value>> pair
ChartSpec(type, title, cats, vals) == Dict(type \o title \o cats \o vals)

ChartSpecs ==
    { ChartSpec(type, title, cats, vals) :
        type \in { <<>>, << <<K_type, Str(BarType)>> >>,
                   << <<K_type, Str(<<"l", "i", "n", "e">>)>> >>,
                   << <<K_type, Str(<<"p", "i", "e">>)>> >> },
        title \in { <<>>, << <<K_title, Str(<<"G">>)>> >> },
        cats \in { <<>> } \cup { << <<K_categories, Labels(n)>> >> : n \in 0..MaxPoints },
        vals \in { <<>> } \cup { << <<K_values, Numbers(n)>> >> : n \in 0..MaxPoints } }
    \cup { JNull, Str(<<"b", "a", "r">>), List(<<>>),
           Dict(<< <<K_categories, JNull>>, <<K_values, Numbers(2)>> >>),
           Dict(<< <<K_categories, Labels(1)>>, <<K_values, Num(<<"5">>)>> >>) }

ChartInit ==
    /\ chart_spec \in ChartSpecs
    /\ chart_pc = "call"
    /\ chart_shapes = <<>>

\* one call of _render_chart(slide, chart_spec) on a slide without charts
RenderChart ==
    /\ chart_pc = "call"
    /\ chart_shapes' = chart_shapes \o render_chart(chart_spec)
    /\ chart_pc' = "returned"
    /\ UNCHANGED chart_spec

----------------------------------------------------------------------------
(* content_generator._polish_content: the block that ensures sources *)

SourcesLimit == 2

\* web_facts[:2] if web_facts else ["General industry reports"]
DefaultSources(facts) ==
    IF Truthy(facts) THEN List(Take(facts[2], SourcesLimit))
    ELSE List(<<Str(GeneralIndustryReports)>>)

\* the topics list of a slide: a dict is wrapped, a list kept, anything
\* else replaced by the empty list
CoerceTopics(topics) ==
    IF IsDict(topics) THEN List(<<topics>>)
    ELSE IF ~IsList(topics) THEN List(<<>>)
    ELSE topics

\* whether the loop body assigns t["sources"]
LacksSources(t) == ~HasKey(t, K_sources) \/ ~IsList(GetItem(t, K_sources))

\* the loop body adding the default sources to whatever the topic holds
EnsureTopicSources_appending(t, facts) ==
    IF ~IsDict(t) THEN Raised("TypeError")
    ELSE IF LacksSources(t) THEN SetItem(t, K_sources, DefaultSources(facts))
    ELSE SetItem(t, K_sources, List(GetItem(t, K_sources)[2] \o DefaultSources(facts)[2]))

\* the loop body for one topic t: only a dict supports both the key test
\* and the item assignment; a str, list, number or None raises TypeError
EnsureTopicSources(t, facts) ==
    IF ~IsDict(t) THEN Raised("TypeError")
    ELSE IF LacksSources(t) THEN SetItem(t, K_sources, DefaultSources(facts))
    ELSE t

\* the loop body for one slide: slide.get raises AttributeError unless the
\* slide is a dict
EnsureSlideSources(slide, facts) ==
    IF ~IsDict(slide) THEN Raised("AttributeError")
    ELSE
    LET topics == CoerceTopics(Get(slide, K_topics, List(<<>>)))
        fixed == [i \in 1..Len(topics[2]) |-> EnsureTopicSources(topics[2][i], facts)]
    IN IF \E i \in 1..Len(fixed) : IsRaised(fixed[i])
       THEN fixed[CHOOSE i \in 1..Len(fixed) :
                     IsRaised(fixed[i]) /\ \A m \in 1..(i - 1) : ~IsRaised(fixed[m])]
       ELSE SetItem(slide, K_topics, List(fixed))

\* lines 117-130: polished after the block, or the exception it raises
EnsureSources(polished, facts) ==
    IF ~(IsDict(polished) /\ HasKey(polished, K_slides)) THEN polished
    ELSE
    LET slides == GetItem(polished, K_slides)
        fixed == [i \in 1..Len(Items(slides)) |-> EnsureSlideSources(Items(slides)[i], facts)]
    IN IF ~Iterable(slides) THEN Raised("TypeError")
       ELSE IF \E i \in 1..Len(fixed) : IsRaised(fixed[i])
       THEN fixed[CHOOSE i \in 1..Len(fixed) :
                     IsRaised(fixed[i]) /\ \A m \in 1..(i - 1) : ~IsRaised(fixed[m])]
       ELSE IF IsList(slides) THEN SetItem(polished, K_slides, List(fixed))
       ELSE polished

----------------------------------------------------------------------------
(* Specification SpecNorm: the sources block applied twice to a document *)

MaxSlides == 2
MaxTopics == 2
NumResults == 3

\* the list fetch_web_facts returns when the search yields n results
FactList(n) == List([i \in 1..n |-> Str(<<"F">> \o Decimal(i))])
FactLists == { FactList(n) : n \in 0..NumResults }

\* what a generator may put under "sources": nothing, an empty list, a
\* list of one source, a bare string
SourcesVariants ==
    { <<>>, << <<K_sources, List(<<>>)>> >>,
      << <<K_sources, List(<<Str(<<"s", "1">>)>>)>> >>,
      << <<K_sources, Str(<<"s", "1">>)>> >> }

TopicLists ==
    UNION { { List([i \in 1..m |-> Topic(<<"X">> \o Decimal(i), f[i])]) :
                f \in [1..m -> SourcesVariants] } : m \in 0..MaxTopics }

\* what a generator may put under "topics": nothing, one bare topic, a list
\* of topics, a list holding something that is no topic, a string, null
TopicsVariants ==
    { <<>> }
    \cup { << <<K_topics, Topic(<<"X">>, s)>> >> : s \in SourcesVariants }
    \cup { << <<K_topics, topics>> >> : topics \in TopicLists }
    \cup { << <<K_topics, List(<<Str(<<"t">>)>>)>> >>,
           << <<K_topics, Str(<<"t">>)>> >>, << <<K_topics, JNull>> >> }

SlideVariants ==
    { Dict(<< <<K_type, Str(<<"M">>)>>, <<K_title, Str(<<"S">>)>> >> \o t) :
        t \in TopicsVariants }
    \cup { Str(<<"s">>), JNull }

PlainSlide(i) ==
    Slide(<<"P">> \o Decimal(i),
          List(<<Topic(<<"Y">>, << <<K_sources, List(<<Str(<<"s", "0">>)>>)>> >>)>>))

\* slide lists of up to MaxSlides slides, one of them any variant and the
\* others plain
SlideLists ==
    { <<>> } \cup
    UNION { { [i \in 1..n |-> IF i = at THEN v ELSE PlainSlide(i)] :
                at \in 1..n, v \in SlideVariants } : n \in 1..MaxSlides }

NormDocs ==
    { Document(T_, O_, slides, C_) : slides \in SlideLists }
    \cup { Dict(<< <<K_title, Str(T_)>> >>), List(<<>>), JNull,
           Dict(<< <<K_slides, Str(<<>>)>> >>), Dict(<< <<K_slides, Str(<<"n", "o">>)>> >>),
           Dict(<< <<K_slides, Num(<<"3">>)>> >>),
           Dict(<< <<K_slides, Dict(<< <<K_title, Str(T_)>> >>)>> >>) }

NormInit ==
    /\ norm_doc \in NormDocs
    /\ norm_facts \in FactLists
    /\ norm_pc = "start"
    /\ norm_once = JNull
    /\ norm_twice = JNull

\* the block run on the document
NormalizeOnce ==
    /\ norm_pc = "start"
    /\ norm_once' = EnsureSources(norm_doc, norm_facts)
    /\ norm_pc' = IF IsRaised(norm_once') THEN "raised" ELSE "once"
    /\ UNCHANGED <<norm_doc, norm_facts, norm_twice>>

\* the block run again on its own result, with the same facts
NormalizeTwice ==
    /\ norm_pc = "once"
    /\ norm_twice' = EnsureSources(norm_once, norm_facts)
    /\ norm_pc' = "twice"
    /\ UNCHANGED <<norm_doc, norm_facts, norm_once>>

----------------------------------------------------------------------------
(* presentation_engine: the slides create_presentation adds.  A slide is   *)
(* [layout, title, paras, charts]: the layout it was added with, the text  *)
(* of its title placeholder (None while unset), the paragraphs of its body *)
(* as [style, text], and its chart shapes.  Tables add a shape only, and   *)
(* _render_table swallows every exception: they are left out.              *)

MaxLines == 3

Para(style, text) == [style |-> style, text |-> text]
NewSlide(layout) == [layout |-> layout, title |-> JNull, paras |-> <<>>, charts |-> <<>>]

\* _safe_set_title(slide, text): the title is set to a str; anything the
\* title placeholder refuses is swallowed and leaves it unset
safe_set_title(slide, text) ==
    IF IsStr(text) THEN [slide EXCEPT !.title = text] ELSE slide

\* _split_overview(text, max_lines) for a str: the pieces between ".", "?"
\* and "!", stripped, the empty ones dropped, the first max_lines of them;
\* the text itself when no piece is left
split_overview(text, max_lines) ==
    LET seps == {i \in 1..Len(text) : text[i] \in {".", "?", "!"}}
        at == Sorted({0, Len(text) + 1} \cup seps)
        pieces == [n \in 1..(Len(at) - 1) |->
                      Strip(SubSeq(text, at[n] + 1, at[n + 1] - 1))]
        sentences == SelectSeq(pieces, LAMBDA s : s # <<>>)
    IN IF sentences # <<>> THEN Take(sentences, max_lines) ELSE <<text>>

\* the body of _render_topics' loop for one topic: the paragraphs and
\* charts it adds, and the exception it raises ("none" if none).  last: no
\* blank paragraph follows the last topic.
render_topic(t, last) ==
    LET subtitle == Get(t, K_subtitle, Str(<<>>))
        bullets == Get(t, K_bullets, List(<<>>))
        sources == Get(t, K_sources, List(<<>>))
        Threw(e) == [exc |-> e, paras |-> <<>>, charts |-> <<>>]
    IN IF ~IsDict(t) THEN Threw("AttributeError")
       ELSE IF Truthy(subtitle) /\ ~IsStr(subtitle) THEN Threw("TypeError")
       ELSE IF ~Iterable(bullets) THEN Threw("TypeError")
       ELSE IF Truthy(sources)
               /\ (~Iterable(sources) \/ \E i \in 1..Len(Items(sources)) : ~IsStr(Items(sources)[i]))
            THEN Threw("TypeError")
       ELSE [exc |-> "none",
             paras |->
                (IF Truthy(subtitle) THEN <<Para("subtitle", subtitle[2])>> ELSE <<>>)
                \o [i \in 1..Len(Items(bullets)) |-> Para("bullet", PyStr(Items(bullets)[i]))]
                \o (IF Truthy(sources)
                    THEN <<Para("sources", SourcesPrefix \o Join(Items(sources), SourcesSep, 1))>>
                    ELSE <<>>)
                \o (IF last THEN <<>> ELSE <<Para("blank", <<>>)>>),
             charts |-> IF HasKey(t, K_chart) THEN render_chart(GetItem(t, K_chart)) ELSE <<>>]

RECURSIVE render_topics(_, _, _)
\* _render_topics(slide, body_shape, topics[i:]): [exc, slide], the slide
\* with the topics' paragraphs and charts added, or the first exception
render_topics(slide, topics, i) ==
    IF i > Len(topics) THEN [exc |-> "none", slide |-> slide]
    ELSE LET r == render_topic(topics[i], i = Len(topics))
         IN IF r.exc # "none" THEN [exc |-> r.exc, slide |-> slide]
            ELSE render_topics([slide EXCEPT !.paras = @ \o r.paras,
                                             !.charts = @ \o r.charts],
                               topics, i + 1)

\* the topic create_presentation builds for the overview and conclusion
TextTopic(lines) ==
    Dict(<< <<K_subtitle, Str(<<>>)>>, <<K_bullets, List(lines)>>, <<K_sources, List(<<>>)>> >>)

\* lines 168-169: the title slide
title_slide(title) == safe_set_title(NewSlide("title"), title)

\* lines 172-176: the overview slide of a str overview
overview_slide(overview) ==
    LET lines == split_overview(overview, MaxLines)
    IN render_topics(safe_set_title(NewSlide("content"), Str(OverviewTitle)),
                     <<TextTopic([i \in 1..Len(lines) |-> Str(lines[i])])>>, 1).slide

\* lines 180-186: [exc, slide] for one dict entry of content["slides"]: the
\* slide added, or the exception _render_topics raises
content_slide(slide_data) ==
    LET topics == Get(slide_data, K_topics, List(<<>>))
    IN render_topics(safe_set_title(NewSlide("content"),
                                    Get(slide_data, K_title, Str(DefaultSlideTitle))),
                     IF IsList(topics) THEN topics[2] ELSE <<topics>>, 1)

\* line 189 testing the presence of the key instead of its value
has_conclusion_key(doc) == HasKey(doc, K_conclusion)

\* line 189: whether a conclusion slide is added
has_conclusion(doc) == Truthy(Get(doc, K_conclusion, JNull))

\* lines 190-193: the conclusion slide
conclusion_slide(conclusion) ==
    render_topics(safe_set_title(NewSlide("content"), Str(ConclusionTitle)),
                  <<TextTopic(<<conclusion>>)>>, 1).slide

----------------------------------------------------------------------------
(* content_generator: the two generator calls.  A response of               *)
(* client.chat.completions.create is Raised("APIError") when the call       *)
(* raises, NoChoices when resp.choices is empty, None when the message has  *)
(* no content, and a str otherwise.                                         *)

NoChoices == <<"nochoices", <<>>>>
Unbound == <<"unbound", <<>>>>

IndexErrorMessage == <<"l", "i", "s", "t", " ", "i", "n", "d", "e", "x", " ", "o", "u", "t", " ", "o", "f", " ", "r", "a", "n", "g", "e">>
AttributeErrorMessage == <<"'", "N", "o", "n", "e", "T", "y", "p", "e", "'", " ", "o", "b", "j", "e", "c", "t", " ", "h", "a", "s", " ", "n", "o", " ", "a", "t", "t", "r", "i", "b", "u", "t", "e", " ", "'", "s", "t", "r", "i", "p", "'">>

\* resp.choices[0].message.content.strip() raises unless the content is a str
Unreadable(resp) == ~IsStr(resp)
ReadError(resp) == IF resp = NoChoices THEN IndexErrorMessage ELSE AttributeErrorMessage

\* _call_llm_and_parse for a response the call returned
call_llm_and_parse(resp) ==
    IF Unreadable(resp) THEN FallbackDocument(BadLLMResponse \o ReadError(resp))
    ELSE safe_json_parse(Str(Strip(resp[2])))

\* the text _polish_content hands to safe_json_parse: the stripped content,
\* cut to its brace span when it has one
polish_raw(text) ==
    LET stripped == Strip(text)
        match == BraceSpan(stripped)
    IN IF match.ok THEN match.span ELSE stripped

\* _polish_content falling back to the draft when the text does not parse
polish_content_keeping_draft(resp, draft_doc, facts) ==
    IF Unreadable(resp) THEN draft_doc
    ELSE IF ~DirectParse(polish_raw(resp[2])).ok /\ ~SpanParse(polish_raw(resp[2])).ok
         THEN draft_doc
    ELSE EnsureSources(safe_json_parse(Str(polish_raw(resp[2]))), facts)

\* _polish_content for a response the call returned: the draft when the
\* content cannot be read, else the parsed content after the sources block
\* (or the exception that block raises)
polish_content(resp, draft_doc, facts) ==
    IF Unreadable(resp) THEN draft_doc
    ELSE EnsureSources(safe_json_parse(Str(polish_raw(resp[2]))), facts)

----------------------------------------------------------------------------
(* Specification Spec: one run of main *)

Topics == { <<>>, <<" ", " ">>, <<"A", "I">>, <<" ", "A", "I", "\n">> }

WithSources(items) == << <<K_sources, List(items)>> >>
WithChart(cats, vals) ==
    << <<K_chart, Dict(<< <<K_type, Str(BarType)>>,
                          <<K_categories, Labels(cats)>>, <<K_values, Numbers(vals)>> >>)>> >>

\* the slides a generator may answer with
PipeSlideVariants ==
    { Slide(<<"S">>, List(<<Topic(<<"X">>, <<>>)>>)),
      Slide(<<"S">>, List(<<Topic(<<"X">>, WithSources(<<>>))>>)),
      Slide(<<"S">>, List(<<Topic(<<"X">>, WithSources(<<Str(<<"s", "1">>), Str(<<"s", "2">>)>>)),
                            Topic(<<"Z">>, <<>>)>>)),
      Slide(<<"S">>, Topic(<<"X">>, <<>>)),
      Dict(<< <<K_title, Str(<<"S">>)>> >>),
      Slide(<<"S">>, List(<<Topic(<<"X">>, WithSources(<<Str(<<"s", "1">>)>>) \o WithChart(4, 2))>>)),
      Slide(<<"S">>, List(<<Topic(<<"X">>, WithSources(<<Num(<<"1">>)>>))>>)),
      Str(<<"s">>) }

PipeSlideLists ==
    { <<>> } \cup
    UNION { { [i \in 1..n |-> IF i = at THEN v ELSE PlainSlide(i)] :
                at \in 1..n, v \in PipeSlideVariants } : n \in 1..MaxSlides }

Prose == <<"S", "o", "r", "r", "y", ",", " ", "n", "o", ".">>

\* what the generator may answer to the draft prompt
DraftResponses ==
    { Raised("APIError"), NoChoices, JNull,
      Str(Dumps(Document(T_, O_, <<Slide(<<"S">>, List(<<Topic(<<"X">>, <<>>)>>))>>, C_))),
      Str(<<" ">> \o Dumps(Document(T_, O_, <<PlainSlide(1)>>, <<>>)) \o <<"\n">>),
      Str(Prose) }

\* what the generator may answer to the polish prompt
PolishResponses ==
    { Raised("APIError"), NoChoices, JNull }
    \cup { Str(Dumps(Document(T_, O_, slides, c))) :
             slides \in PipeSlideLists, c \in { <<>>, C_ } }
    \cup { Str(Prose \o <<"\n">> \o Dumps(Document(T_, O_, <<PlainSlide(1)>>, C_)) \o <<" ">> \o Prose),
           Str(WithTrailingComma(Dumps(Document(T_, O_, <<PlainSlide(1)>>, C_)))),
           Str(Dumps(Str(Dumps(Document(T_, O_, <<>>, C_))))),
           Str(Prose), Str(<<" ", "\n">>), Str(Pad(PadLen)),
           Str(<<"{">> \o Prose \o <<"}">>),
           Str(<<"[", "1", ",", " ", "2", "]">>), Str(<<"n", "u", "l", "l">>),
           Str(<<"{", "}">>),
           Str(Dumps(Dict(<< <<K_title, Str(T_)>>, <<K_overview, Num(<<"5">>)>> >>))),
           Str(Dumps(Dict(<< <<K_title, Num(<<"5">>)>>, <<K_slides, Str(<<>>)>>,
                             <<K_conclusion, Num(<<"7">>)>> >>))),
           Str(Dumps(Dict(<< <<K_title, Str(T_)>>, <<K_slides, Num(<<"3">>)>> >>))),
           Str(Dumps(Dict(<< <<K_title, Str(T_)>>, <<K_slides, Dict(<< <<K_title, Str(T_)>> >>)>> >>))) }

MainInit ==
    /\ pc = "main"
    /\ topic \in Topics
    /\ no_web \in BOOLEAN
    /\ api_key \in BOOLEAN
    /\ web_facts = Unbound
    /\ draft = Unbound
    /\ content = Unbound
    /\ calls = <<>>
    /\ exc = "none"
    /\ error_printed = FALSE
    /\ exit_code = -1
    /\ deck = <<>>
    /\ slide_idx = 0
    /\ saved = FALSE

----------------------------------------------------------------------------
(* main.main, with generate_content and create_presentation inlined.  The  *)
(* model starts when parse_args has returned the arguments.                *)

\* an entry of the call log: the external call, how it ended, and for a
\* generator call the content it returned
Call(fn, result, text) == [fn |-> fn, result |-> result, text |-> text]

EndLast(log, result) == [log EXCEPT ![Len(log)].result = result]

\* the except clause returning 0
Except_returning_zero(e) ==
    /\ exc' = e
    /\ error_printed' = TRUE
    /\ exit_code' = 0
    /\ pc' = "exit"

\* the except clause running the failed stage again
Except_retrying(e) ==
    /\ exc' = e
    /\ error_printed' = TRUE
    /\ UNCHANGED <<exit_code, pc>>

\* print(f"ERROR: {e}"); return 1
Except(e) ==
    /\ exc' = e
    /\ error_printed' = TRUE
    /\ exit_code' = 1
    /\ pc' = "exit"

\* lines 19-22
CheckTopic ==
    /\ pc = "main"
    /\ IF Strip(topic) = <<>>
       THEN /\ error_printed' = TRUE
            /\ exit_code' = 2
            /\ pc' = "exit"
       ELSE /\ pc' = "fetch"
            /\ UNCHANGED <<error_printed, exit_code>>
    /\ UNCHANGED <<topic, no_web, api_key, web_facts, draft, content, calls, exc,
                   deck, slide_idx, saved>>

\* line 28: no call with --no-web, else one call of fetch_web_facts, which
\* returns up to num_results facts or raises (requests, raise_for_status)
FetchFacts ==
    /\ pc = "fetch"
    /\ \/ /\ no_web
          /\ web_facts' = List(<<>>)
          /\ pc' = "generate"
          /\ UNCHANGED <<calls, exc, error_printed, exit_code>>
       \/ /\ ~no_web
          /\ \E facts \in FactLists :
                /\ web_facts' = facts
                /\ calls' = Append(calls, Call("fetch_web_facts", "returned", <<>>))
          /\ pc' = "generate"
          /\ UNCHANGED <<exc, error_printed, exit_code>>
       \/ /\ ~no_web
          /\ calls' = Append(calls, Call("fetch_web_facts", "raised", <<>>))
          /\ Except("RequestException")
          /\ UNCHANGED web_facts
    /\ UNCHANGED <<topic, no_web, api_key, draft, content, deck, slide_idx, saved>>

\* generate_content up to the draft call: the topic is a non-empty str here;
\* _init_groq_client raises RuntimeError without GROQ_API_KEY
InitClient ==
    /\ pc = "generate"
    /\ IF api_key
       THEN pc' = "draft" /\ UNCHANGED <<exc, error_printed, exit_code>>
       ELSE Except("RuntimeError")
    /\ UNCHANGED <<topic, no_web, api_key, web_facts, draft, content, calls,
                   deck, slide_idx, saved>>

\* line 228: _call_llm_and_parse; the create call is outside its try
DraftCall ==
    /\ pc = "draft"
    /\ \E resp \in DraftResponses :
          IF IsRaised(resp)
          THEN /\ calls' = Append(calls, Call("draft", "raised", <<>>))
               /\ Except(resp[2])
               /\ UNCHANGED draft
          ELSE /\ calls' = Append(calls, Call("draft",
                                    IF Unreadable(resp) THEN "unreadable" ELSE "returned",
                                    IF Unreadable(resp) THEN <<>> ELSE resp[2]))
               /\ draft' = call_llm_and_parse(resp)
               /\ pc' = "polish"
               /\ UNCHANGED <<exc, error_printed, exit_code>>
    /\ UNCHANGED <<topic, no_web, api_key, web_facts, content, deck, slide_idx, saved>>

\* lines 230-231: _polish_content, whose create call is outside its try
\* too, and whose result generate_content returns to main
PolishCall ==
    /\ pc = "polish"
    /\ \E resp \in PolishResponses :
          IF IsRaised(resp)
          THEN /\ calls' = Append(calls, Call("polish", "raised", <<>>))
               /\ Except(resp[2])
               /\ UNCHANGED content
          ELSE /\ calls' = Append(calls, Call("polish",
                                    IF Unreadable(resp) THEN "unreadable" ELSE "returned",
                                    IF Unreadable(resp) THEN <<>> ELSE resp[2]))
               /\ LET polished == polish_content(resp, draft, web_facts)
                  IN IF IsRaised(polished)
                     THEN Except(polished[2]) /\ UNCHANGED content
                     ELSE /\ content' = polished
                          /\ pc' = "render"
                          /\ UNCHANGED <<exc, error_printed, exit_code>>
    /\ UNCHANGED <<topic, no_web, api_key, web_facts, draft, deck, slide_idx, saved>>

\* create_presentation, lines 163-169: the title slide is added, then
\* content.get raises AttributeError unless content is a dict.  prs is local:
\* an exception drops the slides added so far.
AddTitleSlide ==
    /\ pc = "render"
    /\ IF IsDict(content)
       THEN /\ deck' = <<title_slide(Get(content, K_title, Str(UntitledPresentation)))>>
            /\ calls' = Append(calls, Call("create_presentation", "running", <<>>))
            /\ pc' = "overview"
            /\ UNCHANGED <<exc, error_printed, exit_code>>
       ELSE /\ calls' = Append(calls, Call("create_presentation", "raised", <<>>))
            /\ Except("AttributeError")
            /\ UNCHANGED deck
    /\ UNCHANGED <<topic, no_web, api_key, web_facts, draft, content, slide_idx, saved>>

\* lines 172-176: re.split raises TypeError unless the overview is a str
AddOverviewSlide ==
    /\ pc = "overview"
    /\ LET overview == Get(content, K_overview, Str(<<>>))
       IN IF IsStr(overview)
          THEN /\ deck' = Append(deck, overview_slide(overview[2]))
               /\ slide_idx' = 1
               /\ pc' = "slides"
               /\ UNCHANGED <<calls, exc, error_printed, exit_code>>
          ELSE /\ deck' = <<>>
               /\ calls' = EndLast(calls, "raised")
               /\ Except("TypeError")
               /\ UNCHANGED slide_idx
    /\ UNCHANGED <<topic, no_web, api_key, web_facts, draft, content, saved>>

\* lines 179-186, one turn of the loop over content.get("slides", []): the
\* for raises TypeError on a value that cannot be iterated, slide_data.get
\* AttributeError on an entry that is no dict
AddContentSlide ==
    /\ pc = "slides"
    /\ LET slides == Get(content, K_slides, List(<<>>))
       IN IF ~Iterable(slides)
          THEN /\ deck' = <<>>
               /\ calls' = EndLast(calls, "raised")
               /\ Except("TypeError")
               /\ UNCHANGED slide_idx
          ELSE /\ slide_idx <= Len(Items(slides))
               /\ LET slide_data == Items(slides)[slide_idx]
                      added == IF IsDict(slide_data) THEN content_slide(slide_data)
                               ELSE [exc |-> "AttributeError", slide |-> NewSlide("content")]
                  IN IF added.exc # "none"
                     THEN /\ deck' = <<>>
                          /\ calls' = EndLast(calls, "raised")
                          /\ Except(added.exc)
                          /\ UNCHANGED slide_idx
                     ELSE /\ deck' = Append(deck, added.slide)
                          /\ slide_idx' = slide_idx + 1
                          /\ UNCHANGED <<pc, calls, exc, error_printed, exit_code>>
    /\ UNCHANGED <<topic, no_web, api_key, web_facts, draft, content, saved>>

\* lines 188-193, once the loop is over: the conclusion slide, if any
AddConclusionSlide ==
    /\ pc = "slides"
    /\ Iterable(Get(content, K_slides, List(<<>>)))
    /\ slide_idx > Len(Items(Get(content, K_slides, List(<<>>))))
    /\ deck' = IF has_conclusion(content)
               THEN Append(deck, conclusion_slide(GetItem(content, K_conclusion)))
               ELSE deck
    /\ pc' = "save"
    /\ UNCHANGED <<topic, no_web, api_key, web_facts, draft, content, calls, exc,
                   error_printed, exit_code, slide_idx, saved>>

\* lines 195-197 and main's return 0: prs.save writes the file or raises
Save ==
    /\ pc = "save"
    /\ \/ /\ saved' = TRUE
          /\ calls' = EndLast(calls, "returned")
          /\ exit_code' = 0
          /\ pc' = "exit"
          /\ UNCHANGED <<deck, exc, error_printed>>
       \/ /\ deck' = <<>>
          /\ calls' = EndLast(calls, "raised")
          /\ Except("OSError")
          /\ UNCHANGED saved
    /\ UNCHANGED <<topic, no_web, api_key, web_facts, draft, content, slide_idx>>

ParseIdle == raw = JNull /\ parse_pc = "idle" /\ parsed = JNull
ChartIdle == chart_spec = JNull /\ chart_pc = "idle" /\ chart_shapes = <<>>
NormIdle ==
    /\ norm_doc = JNull /\ norm_facts = JNull /\ norm_pc = "idle"
    /\ norm_once = JNull /\ norm_twice = JNull
MainIdle ==
    /\ pc = "idle" /\ topic = <<>> /\ no_web = FALSE /\ api_key = FALSE
    /\ web_facts = JNull /\ draft = JNull /\ content = JNull /\ calls = <<>>
    /\ exc = "none" /\ error_printed = FALSE
    /\ exit_code = -1 /\ deck = <<>> /\ slide_idx = 0 /\ saved = FALSE

SpecParseInit == ParseInit /\ ChartIdle /\ NormIdle /\ MainIdle
SpecParseNext == SafeJsonParse /\ UNCHANGED <<chartVars, normVars, mainVars>>
SpecParse == SpecParseInit /\ [][SpecParseNext]_vars

SpecChartInit == ChartInit /\ ParseIdle /\ NormIdle /\ MainIdle
SpecChartNext == RenderChart /\ UNCHANGED <<parseVars, normVars, mainVars>>
SpecChart == SpecChartInit /\ [][SpecChartNext]_vars

SpecNormInit == NormInit /\ ParseIdle /\ ChartIdle /\ MainIdle
SpecNormNext ==
    \/ NormalizeOnce /\ UNCHANGED <<parseVars, chartVars, mainVars>>
    \/ NormalizeTwice /\ UNCHANGED <<parseVars, chartVars, mainVars>>
SpecNorm == SpecNormInit /\ [][SpecNormNext]_vars

Init == MainInit /\ ParseIdle /\ ChartIdle /\ NormIdle
Next ==
    \/ CheckTopic /\ UNCHANGED <<parseVars, chartVars, normVars>>
    \/ FetchFacts /\ UNCHANGED <<parseVars, chartVars, normVars>>
    \/ InitClient /\ UNCHANGED <<parseVars, chartVars, normVars>>
    \/ DraftCall /\ UNCHANGED <<parseVars, chartVars, normVars>>
    \/ PolishCall /\ UNCHANGED <<parseVars, chartVars, normVars>>
    \/ AddTitleSlide /\ UNCHANGED <<parseVars, chartVars, normVars>>
    \/ AddOverviewSlide /\ UNCHANGED <<parseVars, chartVars, normVars>>
    \/ AddContentSlide /\ UNCHANGED <<parseVars, chartVars, normVars>>
    \/ AddConclusionSlide /\ UNCHANGED <<parseVars, chartVars, normVars>>
    \/ Save /\ UNCHANGED <<parseVars, chartVars, normVars>>
Spec == Init /\ [][Next]_vars

----------------------------------------------------------------------------
(* Properties of safe_json_parse, checked under SpecParse *)

\* C1: whatever the raw text, safe_json_parse returns a document: a dict
\* holding title, overview and conclusion as text and slides as a list,
\* also when the text is valid JSON of another shape.
C1_ReturnsDocument ==
    parse_pc = "returned" =>
        /\ IsDict(parsed)
        /\ \A key \in {K_title, K_overview, K_conclusion} :
              HasKey(parsed, key) /\ IsStr(GetItem(parsed, key))
        /\ HasKey(parsed, K_slides) /\ IsList(GetItem(parsed, K_slides))

\* C5: for an input that is empty or no text, or that neither the direct
\* parse nor the parse of the brace span decodes, safe_json_parse returns
\* the sentinel: title "Parsing Failed", overview the first 500 characters
\* of the input (empty without input), slides [], conclusion "".
C5_SentinelOnFailure ==
    (/\ parse_pc = "returned"
     /\ \/ ~IsStr(raw)
        \/ raw[2] = <<>>
        \/ ~DirectParse(raw[2]).ok /\ ~SpanParse(raw[2]).ok)
    => parsed = Dict(<< <<K_title, Str(ParsingFailed)>>,
                        <<K_overview, Str(IF IsStr(raw) THEN Take(raw[2], 500) ELSE <<>>)>>,
                        <<K_slides, List(<<>>)>>,
                        <<K_conclusion, Str(<<>>)>> >>)

\* C5 happens: a text longer than 500 characters that no parse decodes has
\* come back as the sentinel holding its first 500 characters
C5_Witness ==
    /\ parse_pc = "returned"
    /\ IsStr(raw) /\ Len(raw[2]) > 500
    /\ ~DirectParse(raw[2]).ok /\ ~SpanParse(raw[2]).ok
    /\ IsDict(parsed)
    /\ GetItem(parsed, K_title) = Str(ParsingFailed)
    /\ Len(GetItem(parsed, K_overview)[2]) = 500

----------------------------------------------------------------------------
(* Property of _render_chart, checked under SpecChart *)

\* C4: a chart whose categories and values are non-empty lists of different
\* lengths is rendered with the first n of each, n the shorter length.
C4_MismatchTruncated ==
    (/\ chart_pc = "returned"
     /\ IsDict(chart_spec)
     /\ HasKey(chart_spec, K_categories) /\ IsList(GetItem(chart_spec, K_categories))
     /\ HasKey(chart_spec, K_values) /\ IsList(GetItem(chart_spec, K_values))
     /\ Len(GetItem(chart_spec, K_categories)[2]) > 0
     /\ Len(GetItem(chart_spec, K_values)[2]) > 0
     /\ Len(GetItem(chart_spec, K_categories)[2]) # Len(GetItem(chart_spec, K_values)[2]))
    => LET categories == GetItem(chart_spec, K_categories)[2]
           values == GetItem(chart_spec, K_values)[2]
           n == Min(Len(categories), Len(values))
       IN /\ Len(chart_shapes) = 1
          /\ chart_shapes[1].categories = List(Take(categories, n))
          /\ chart_shapes[1].values = List(Take(values, n))

----------------------------------------------------------------------------
(* Property of the sources block, checked under SpecNorm *)

\* C8: the block is idempotent: run on its own result with the same facts,
\* it returns that result unchanged.
C8_Idempotent == norm_pc = "twice" => norm_twice = norm_once

\* C8 happens: the first run wrapped a bare topic and filled its sources
\* from the facts, and the second run has returned
C8_Witness ==
    /\ norm_pc = "twice"
    /\ norm_once # norm_doc
    /\ Truthy(norm_facts)
    /\ \E i \in 1..Len(GetItem(norm_doc, K_slides)[2]) :
          LET before == GetItem(norm_doc, K_slides)[2][i]
              after == GetItem(norm_once, K_slides)[2][i]
          IN /\ IsDict(before) /\ HasKey(before, K_topics)
             /\ IsDict(GetItem(before, K_topics))
             /\ ~HasKey(GetItem(before, K_topics), K_sources)
             /\ GetItem(GetItem(after, K_topics)[2][1], K_sources)
                  = List(Take(norm_facts[2], 2))

----------------------------------------------------------------------------
(* Properties of a run of main, checked under Spec *)

\* C2: in the document generate_content returns, every topic of every slide
\* has a non-empty list of sources.
C2_SourcesNeverEmpty ==
    (content # Unbound /\ IsDict(content) /\ HasKey(content, K_slides)
       /\ IsList(GetItem(content, K_slides)))
    => \A i \in 1..Len(GetItem(content, K_slides)[2]) :
          LET slide == GetItem(content, K_slides)[2][i]
          IN (IsDict(slide) /\ HasKey(slide, K_topics) /\ IsList(GetItem(slide, K_topics)))
             => \A j \in 1..Len(GetItem(slide, K_topics)[2]) :
                   LET t == GetItem(slide, K_topics)[2][j]
                   IN IsDict(t) => /\ HasKey(t, K_sources)
                                   /\ IsList(GetItem(t, K_sources))
                                   /\ Len(GetItem(t, K_sources)[2]) > 0

\* C3: once the draft call has returned readable content, a polish call that
\* raises, or whose content cannot be read, makes generate_content return
\* the draft.
C3_PolishFailureReturnsDraft ==
    \A i \in 1..Len(calls) :
        (/\ calls[i].fn = "polish"
         /\ calls[i].result \in {"raised", "unreadable"}
         /\ \E d \in 1..(i - 1) : calls[d].fn = "draft" /\ calls[d].result = "returned")
        => content = draft

\* C6: the saved deck is the title slide, the slide titled "Overview", one
\* slide for each entry of the document's slides in their order, and last a
\* slide titled "Conclusion" exactly when the conclusion is not empty:
\* 2 + len(slides) slides without it, 3 + len(slides) with it.
C6_DeckOrder ==
    (saved /\ IsList(Get(content, K_slides, List(<<>>)))
           /\ IsStr(Get(content, K_conclusion, Str(<<>>))))
    => LET slides == Get(content, K_slides, List(<<>>))[2]
           n == Len(slides)
           conclusion == Get(content, K_conclusion, Str(<<>>))
       IN /\ Len(deck) = (IF conclusion[2] = <<>> THEN 2 ELSE 3) + n
          /\ deck[1].layout = "title"
          /\ deck[2].layout = "content" /\ deck[2].title = Str(OverviewTitle)
          /\ \A i \in 1..n :
                /\ deck[2 + i].layout = "content"
                /\ deck[2 + i].title = Get(slides[i], K_title, Str(DefaultSlideTitle))
                /\ deck[2 + i] = content_slide(slides[i]).slide
          /\ conclusion[2] # <<>> =>
                /\ deck[3 + n].title = Str(ConclusionTitle)
                /\ deck[3 + n].paras = <<Para("bullet", conclusion[2])>>
          /\ \A i \in 1..(2 + n) : deck[i].title # Str(ConclusionTitle)

\* C6 happens: a deck of two content slides and a conclusion has been saved
C6_Witness ==
    /\ saved
    /\ IsList(Get(content, K_slides, List(<<>>)))
    /\ Len(Get(content, K_slides, List(<<>>))[2]) = 2
    /\ Get(content, K_conclusion, Str(<<>>)) = Str(C_)
    /\ Len(deck) = 5
    /\ deck[5].title = Str(ConclusionTitle)

\* C7: main returns 2 when the stripped topic is empty, and then has made no
\* external call; 0 when fetching, generation and rendering have all
\* completed; 1 when a stage has raised, the error being printed; and it
\* returns nothing else.
C7_ExitCodes ==
    LET empty == \A i \in 1..Len(topic) : topic[i] \in Whitespace
    IN IF pc # "exit" THEN exit_code = -1
       ELSE /\ exit_code \in {0, 1, 2}
            /\ exit_code = 2 <=> empty
            /\ exit_code = 2 => calls = <<>> /\ exc = "none"
            /\ exit_code = 0 <=> (~empty /\ exc = "none")
            /\ exit_code = 0 =>
                  /\ web_facts # Unbound /\ content # Unbound /\ saved
                  /\ \A i \in 1..Len(calls) : calls[i].result \in {"returned", "unreadable"}
            /\ exit_code = 1 <=> exc # "none"
            /\ exit_code = 1 => error_printed /\ ~saved

\* C7 happens: a run has ended with 1 because the polish call raised
C7_Witness ==
    /\ pc = "exit" /\ exit_code = 1 /\ error_printed
    /\ exc = "APIError"
    /\ Len(calls) > 0 /\ calls[Len(calls)].fn = "polish"
    /\ calls[Len(calls)].result = "raised"

\* C9: the external calls are made one after the other and never again: the
\* Fact Provider at most once and before the generator, the generator at
\* most twice (the draft call, then the polish call once the draft call has
\* returned), the renderer at most once and once generate_content has
\* returned a document, and no call after one that raised.
C9_CallsInSequence ==
    LET Rank(fn) == CASE fn = "fetch_web_facts" -> 1
                      [] fn = "draft" -> 2
                      [] fn = "polish" -> 3
                      [] fn = "create_presentation" -> 4
    IN /\ \A i, j \in 1..Len(calls) : i < j => Rank(calls[i].fn) < Rank(calls[j].fn)
       /\ \A i \in 1..(Len(calls) - 1) : calls[i].result \in {"returned", "unreadable"}
       /\ \A j \in 1..Len(calls) :
             /\ calls[j].fn = "polish" =>
                   \E i \in 1..(j - 1) : calls[i].fn = "draft" /\ draft # Unbound
             /\ calls[j].fn = "create_presentation" =>
                   /\ content # Unbound
                   /\ \E i \in 1..(j - 1) : calls[i].fn = "polish"
             /\ calls[j].fn = "fetch_web_facts" => ~no_web

\* C9 happens: all four calls have been made and have returned
C9_Witness ==
    /\ Len(calls) = 4
    /\ pc = "exit" /\ saved
    /\ \A i \in 1..4 : calls[i].result = "returned"

\* C10: when the polish call returns readable text that neither the direct
\* parse nor the parse of the brace span decodes, generate_content returns
\* the "Parsing Failed" sentinel made of that text, with no slides, and not
\* the valid draft; when the content cannot be read it returns the draft.
C10_SentinelReplacesDraft ==
    \A i \in 1..Len(calls) :
        calls[i].fn = "polish" =>
            /\ calls[i].result = "unreadable" => content = draft
            /\ (/\ calls[i].result = "returned"
                /\ ~DirectParse(polish_raw(calls[i].text)).ok
                /\ ~SpanParse(polish_raw(calls[i].text)).ok)
               => /\ content = Dict(<< <<K_title, Str(ParsingFailed)>>,
                                       <<K_overview, Str(Take(polish_raw(calls[i].text), 500))>>,
                                       <<K_slides, List(<<>>)>>,
                                       <<K_conclusion, Str(<<>>)>> >>)
                  /\ GetItem(draft, K_title) # Str(ParsingFailed) => content # draft

\* C10 happens: the draft was a valid document with a slide, the polish call
\* answered in prose, and the sentinel made of the prose was returned
C10_Witness ==
    /\ Len(calls) > 0 /\ calls[Len(calls)].fn = "polish"
    /\ calls[Len(calls)].result = "returned"
    /\ ~DirectParse(polish_raw(calls[Len(calls)].text)).ok
    /\ ~SpanParse(polish_raw(calls[Len(calls)].text)).ok
    /\ GetItem(draft, K_title) = Str(T_)
    /\ Len(GetItem(draft, K_slides)[2]) = 1
    /\ GetItem(content, K_title) = Str(ParsingFailed)
    /\ GetItem(content, K_overview) = Str(Prose)
=============================================================================
